---- MODULE Spec2Model ----
(***************************************************************************)
(* A model of the SEO auditor's crawl: the dashboard's launch step         *)
(* (streamlit_app.py), the spider SeoSpider (crawler/spiders/seo_spider.py)*)
(* and the part of the crawl engine the spider's requests go through (the  *)
(* scheduler with its duplicate filter, the download, the feed export that *)
(* appends every yielded item to out/results.csv).                         *)
(*                                                                         *)
(* One crawl run is one behaviour.  The pages of the web are inputs: what  *)
(* a fetch returns is chosen when the fetch completes.  The dashboard's    *)
(* monitor loop, which polls out/errors.log and out/results.csv while the  *)
(* crawler runs, is modelled next to the crawl (PollSpec).                 *)
(***************************************************************************)
EXTENDS Integers, Sequences, FiniteSets, TLC

VARIABLES
    pc,              \* where the run is: start, launched, rejected, crashed, constructed, running, closed
    start_url,       \* the -a start_url=... argument / the dashboard's domain field
    allowed_domain,  \* SeoSpider.allowed_domain
    visited_titles,  \* SeoSpider.visited_titles
    visited_h1s,     \* SeoSpider.visited_h1s
    items_scraped,   \* SeoSpider.items_scraped
    pending,         \* requests the scheduler holds
    inflight,        \* requests handed to the downloader
    seen,            \* URLs the scheduler's duplicate filter has recorded
    items,           \* the records the callbacks yielded, in order
    resultsExists,   \* out/results.csv exists
    results,         \* the rows of out/results.csv
    fetched,         \* per URL, how many times it was dispatched for fetch
    outcomes,        \* number of terminal outcomes so far
    last,            \* the handler that ran last, the URL it ran for, the links it was given
    monitor,         \* the dashboard's monitor loop: idle, polling, error, complete, timed out
    polled,          \* iterations of `for i in range(wait_seconds)` begun so far (the next i)
    row_count,       \* the loop's row_count
    stable_ticks,    \* the loop's stable_ticks
    poll,            \* what the last iteration found in out/errors.log and out/results.csv
    quiet,           \* reads since the last growth that parsed and showed no larger row count
    parsed           \* some iteration read and parsed out/results.csv

\* the state of the crawl
crawlvars == <<pc, start_url, allowed_domain, visited_titles, visited_h1s, items_scraped,
               pending, inflight, seen, items, resultsExists, results, fetched, outcomes, last>>

\* the state of the dashboard's monitor loop
pollvars == <<monitor, polled, row_count, stable_ticks, poll, quiet, parsed>>

vars == <<crawlvars, pollvars>>

----------------------------------------------------------------------------
(* Bounds of the model *)

\* at most this many fetches are dispatched in one run: the page-count limit
\* of the crawl (CLOSESPIDER_PAGECOUNT), scaled down
MaxFetches == 4
\* at most this many fetches are in flight at once
MaxConcurrency == 2

----------------------------------------------------------------------------
(* Strings: str.startswith, the `in` substring test, and URL parsing *)

\* s[i .. i+Len(sub)-1] = sub
MatchAt(s, sub, i) ==
    /\ i >= 1
    /\ i + Len(sub) - 1 <= Len(s)
    /\ SubSeq(s, i, i + Len(sub) - 1) = sub

\* s.startswith(prefix)
StartsWith(s, prefix) == MatchAt(s, prefix, 1)

\* sub in s
Contains(s, sub) == \E i \in 1..(Len(s) + 1) : MatchAt(s, sub, i)

\* s.find(sub) + 1, searching from position from; 0 when absent
IndexFrom(s, sub, from) ==
    LET hits == {i \in from..Len(s) : MatchAt(s, sub, i)}
    IN  IF hits = {} THEN 0 ELSE CHOOSE i \in hits : \A j \in hits : i <= j

\* urlparse(u).scheme
Scheme(u) ==
    LET k == IndexFrom(u, "://", 1)
    IN  IF k = 0 THEN "" ELSE SubSeq(u, 1, k - 1)

\* urlparse(u).netloc
Netloc(u) ==
    LET k == IndexFrom(u, "://", 1)
        b == k + 3
        e == IndexFrom(u, "/", b)
    IN  IF k = 0 THEN ""
        ELSE IF e = 0 THEN SubSeq(u, b, Len(u))
        ELSE SubSeq(u, b, e - 1)

\* tldextract.extract(u).registered_domain, for hosts under a one-label
\* public suffix: the last two labels of the host, "" when there are not two
RegisteredDomain(u) ==
    LET h    == Netloc(u)
        dots == {i \in 1..Len(h) : MatchAt(h, ".", i)}
        lastd == CHOOSE i \in dots : \A j \in dots : j <= i
        before == {i \in dots : i < lastd}
        prev == CHOOSE i \in before : \A j \in before : j <= i
    IN  IF dots = {} THEN ""
        ELSE IF before = {} THEN h
        ELSE SubSeq(h, prev + 1, Len(h))

\* urljoin(u, "/sitemap.xml"): the path replaced, scheme and host kept
SitemapUrl(u) ==
    IF Netloc(u) = "" THEN "/sitemap.xml"
    ELSE Scheme(u) \o "://" \o Netloc(u) \o "/sitemap.xml"

----------------------------------------------------------------------------
(* The inputs *)

\* start URLs tried: a good one, one with an unsupported scheme, none
StartUrls == {"https://example.com/", "ftp://example.com/", ""}

\* the absolute URLs the <a href> and <loc> entries of the web resolve to
LinkUrls == {"https://example.com/", "https://example.com/a",
             "https://notexample.com/", "https://other.com/", "ftp://example.com/f"}

Titles == {"Home", ""}
H1s == {"Welcome"}
ContentTypes == {"text/html", "application/pdf"}
Statuses == {"200"}
Errors == {"TimeoutError", "Forbidden by robots.txt"}

AllUrls == LinkUrls \cup StartUrls \cup {SitemapUrl(u) : u \in StartUrls}

\* the lists of <a href> (or sitemap <loc>) entries a document may carry:
\* none, a link back to the start page, an inner page next to a foreign host
\* whose name ends in the seed's domain, a foreign host next to a non-http
\* URL, an inner page next to a foreign host
LinkLists ==
    {<<>>,
     <<"https://example.com/">>,
     <<"https://example.com/a", "https://notexample.com/">>,
     <<"https://other.com/", "ftp://example.com/f">>,
     <<"https://example.com/a", "https://other.com/">>}

\* Python's None, as the feed export sees it
None == "<None>"

\* the row close writes: one cell, which lands in the first column
SentinelRow == [url |-> "Empty: run was not completed"]

----------------------------------------------------------------------------
(* The records the callbacks yield *)

\* parse_page, HTML branch
PageRecord(url, status, doc) ==
    [url |-> url, status |-> status, title |-> doc.title, h1 |-> doc.h1,
     canonical |-> doc.canonical, robots_meta |-> doc.robots_meta,
     hreflang_count |-> doc.hreflang_count,
     duplicate_title |-> FALSE, duplicate_h1 |-> FALSE, note |-> None]

\* parse_page, non-HTML branch
NonHtmlRecord(url, status, content_type) ==
    [url |-> url, status |-> status, title |-> None, h1 |-> None,
     canonical |-> None, robots_meta |-> None, hreflang_count |-> 0,
     duplicate_title |-> FALSE, duplicate_h1 |-> FALSE,
     note |-> "Skipped non-HTML resource (" \o content_type \o ")"]

\* parse_page, a link that is not followed
SkippedRecord(abs_url) ==
    [url |-> abs_url, status |-> "skipped", title |-> "", h1 |-> "",
     canonical |-> "", robots_meta |-> "", hreflang_count |-> 0,
     duplicate_title |-> FALSE, duplicate_h1 |-> FALSE,
     note |-> "Skipped external or disallowed link (robots.txt or different domain)"]

\* handle_error
FailedRecord(url, err) ==
    [url |-> url, status |-> "failed",
     wait_time |-> "Page could not be opened (timeout or error).",
     title |-> "", h1 |-> "", canonical |-> "", robots_meta |-> "",
     hreflang_count |-> 0, duplicate_title |-> FALSE, duplicate_h1 |-> FALSE,
     decision_reason |-> "error: " \o err]

\* the HTML documents a fetch may return, as the selectors of parse_page see them
Docs ==
    [title : Titles, h1 : H1s, canonical : {""}, robots_meta : {""},
     hreflang_count : {0}, links : LinkLists]

----------------------------------------------------------------------------
(* Requests and the scheduler *)

Req(url, callback, dont_filter) ==
    [url |-> url, callback |-> callback, dont_filter |-> dont_filter]

\* the test of parse_page that decides whether a link is followed
FollowLink(abs_url, domain) ==
    StartsWith(abs_url, "http") /\ Contains(abs_url, domain)

\* FollowLink, tabulated over the URLs and domains of the model
FollowTable ==
    [domain \in {RegisteredDomain(u) : u \in StartUrls} |->
        {u \in LinkUrls : FollowLink(u, domain)}]

Follows(abs_url, domain) == abs_url \in FollowTable[domain]

Range(q) == {q[i] : i \in 1..Len(q)}

\* the requests that response.follow(...) yields for a list of URLs
FollowRequests(urls) == {Req(u, "parse_page", FALSE) : u \in Range(urls)}

\* the scheduler's enqueue: a request whose URL the duplicate filter has
\* recorded is dropped unless it carries dont_filter
Admitted(reqs, seenUrls) == {r \in reqs : r.dont_filter \/ r.url \notin seenUrls}

\* the duplicate filter records the URL of every request it was asked about
Recorded(reqs, seenUrls) == seenUrls \cup {r.url : r \in {q \in reqs : ~q.dont_filter}}

\* the downloader has a handler for the URL's scheme
Downloadable(url) == Scheme(url) \in {"http", "https"}

\* Downloadable, tabulated over the URLs of the model
DownloadableUrls == {u \in AllUrls : Downloadable(u)}

\* the number of fetches dispatched so far: the sum of fetched[u] over all
\* URLs, counted as the pairs <<u, k>> with k <= fetched[u] (no URL is fetched
\* more than MaxFetches times, as the total never exceeds MaxFetches)
TotalFetched ==
    Cardinality({p \in (DOMAIN fetched) \X (1..MaxFetches) : p[2] <= fetched[p[1]]})

----------------------------------------------------------------------------
(* The state before a run *)

Ran(op, url, links) == [op |-> op, url |-> url, links |-> links]

\* parse_page ran for the response of this URL, with this content type and
\* these <a href> entries, and yielded follow requests for these URLs
RanPage(url, content_type, links, followed) ==
    [op |-> "parse_page", url |-> url, links |-> links,
     content_type |-> content_type, followed |-> followed]

\* handle_error ran for the request of this URL, with this failure.value
RanError(url, err) == [op |-> "handle_error", url |-> url, links |-> <<>>, err |-> err]

\* what one iteration of the monitor loop finds: the error log non-empty
\* ("error"), no results file ("missing"), a results file that read_csv
\* rejects ("unreadable"), or a results file of n data rows ("rows")
Found(kind, n) == [kind |-> kind, n |-> n]

Init ==
    /\ pc = "start"
    /\ start_url \in StartUrls
    /\ allowed_domain = ""
    /\ visited_titles = {}
    /\ visited_h1s = {}
    /\ items_scraped = 0
    /\ pending = {}
    /\ inflight = {}
    /\ seen = {}
    /\ items = <<>>
    /\ resultsExists \in BOOLEAN
    /\ results = <<>>
    /\ fetched = [u \in AllUrls |-> 0]
    /\ outcomes = 0
    /\ last = Ran("none", "", <<>>)
    /\ monitor = "idle"
    /\ polled = 0
    /\ row_count = 0
    /\ stable_ticks = 0
    /\ poll = Found("none", 0)
    /\ quiet = 0
    /\ parsed = FALSE

\* the feed export appends the yielded records to out/results.csv
Emit(rows) ==
    /\ items' = items \o rows
    /\ results' = results \o rows
    /\ resultsExists' = (resultsExists \/ rows # <<>>)

\* the requests a callback yields go through the scheduler
Schedule(reqs) ==
    /\ pending' = pending \cup Admitted(reqs, seen)
    /\ seen' = Recorded(reqs, seen)

----------------------------------------------------------------------------
(* The dashboard's Run button: reset the results, validate the input *)

ValidInput(domain) == Scheme(domain) \in {"http", "https"} /\ Netloc(domain) # ""

RunClicked ==
    /\ pc = "start"
    /\ resultsExists' = FALSE
    /\ results' = <<>>
    /\ pc' = IF ValidInput(start_url) THEN "launched" ELSE "rejected"
    /\ last' = Ran("run_clicked", start_url, <<>>)
    /\ UNCHANGED <<start_url, allowed_domain, visited_titles, visited_h1s, items_scraped,
                   pending, inflight, seen, items, fetched, outcomes>>
    /\ UNCHANGED pollvars

----------------------------------------------------------------------------
(* SeoSpider *)

\* __init__: run by `scrapy crawl seo -a start_url=...`, from the shell or
\* from the dashboard's subprocess
SpiderInit ==
    /\ pc \in {"start", "launched"}
    /\ IF start_url = ""
       THEN /\ pc' = "crashed"
            /\ UNCHANGED <<allowed_domain, visited_titles, visited_h1s, items_scraped>>
       ELSE /\ pc' = "constructed"
            /\ allowed_domain' = RegisteredDomain(start_url)
            /\ visited_titles' = {}
            /\ visited_h1s' = {}
            /\ items_scraped' = 0
    /\ last' = Ran("init", start_url, <<>>)
    /\ UNCHANGED <<start_url, pending, inflight, seen, items, resultsExists, results,
                   fetched, outcomes>>
    /\ UNCHANGED pollvars

\* the two requests start_requests yields
StartRequestSet(url) ==
    {Req(url, "parse_page", TRUE), Req(SitemapUrl(url), "parse_sitemap", TRUE)}

StartRequests ==
    /\ pc = "constructed"
    /\ pc' = "running"
    /\ Schedule(StartRequestSet(start_url))
    /\ last' = Ran("start_requests", start_url, <<>>)
    /\ UNCHANGED <<start_url, allowed_domain, visited_titles, visited_h1s, items_scraped,
                   inflight, items, resultsExists, results, fetched, outcomes>>
    /\ UNCHANGED pollvars

\* the engine takes a request from the scheduler and hands it to the downloader
Dispatch(req) ==
    /\ pc = "running"
    /\ req \in pending
    /\ Cardinality(inflight) < MaxConcurrency
    /\ TotalFetched < MaxFetches
    /\ pending' = pending \ {req}
    /\ inflight' = inflight \cup {req}
    /\ fetched' = [fetched EXCEPT ![req.url] = @ + 1]
    /\ last' = Ran("dispatch", req.url, <<>>)
    /\ UNCHANGED <<pc, start_url, allowed_domain, visited_titles, visited_h1s, items_scraped,
                   seen, items, resultsExists, results, outcomes>>
    /\ UNCHANGED pollvars

\* parse_sitemap: every <loc> is followed
ParseSitemap(req) ==
    /\ pc = "running"
    /\ req \in inflight
    /\ req.callback = "parse_sitemap"
    /\ req.url \in DownloadableUrls
    /\ inflight' = inflight \ {req}
    /\ \E locs \in LinkLists :
         /\ Schedule(FollowRequests(locs))
         /\ last' = Ran("parse_sitemap", req.url, locs)
    /\ Emit(<<>>)
    /\ outcomes' = outcomes + 1
    /\ UNCHANGED <<pc, start_url, allowed_domain, visited_titles, visited_h1s, items_scraped,
                   fetched>>
    /\ UNCHANGED pollvars

RECURSIVE SkippedRecords(_, _)

\* SkippedRecords with a record for every link, the followed ones too
SkippedRecordsForAll(links, domain) ==
    [i \in 1..Len(links) |-> SkippedRecord(links[i])]

\* the records parse_page yields for the links it does not follow, in order
SkippedRecords(links, domain) ==
    IF links = <<>> THEN <<>>
    ELSE (IF Follows(Head(links), domain) THEN <<>> ELSE <<SkippedRecord(Head(links))>>)
         \o SkippedRecords(Tail(links), domain)

RECURSIVE FollowedLinks(_, _)
\* the links parse_page follows, in order
FollowedLinks(links, domain) ==
    IF links = <<>> THEN <<>>
    ELSE (IF Follows(Head(links), domain) THEN <<Head(links)>> ELSE <<>>)
         \o FollowedLinks(Tail(links), domain)

\* content_type.startswith("text/html")
IsHtml(content_type) == StartsWith(content_type, "text/html")

\* the records parse_page yields for a response
PageItems(url, status, content_type, doc, domain) ==
    IF ~IsHtml(content_type)
    THEN <<NonHtmlRecord(url, status, content_type)>>
    ELSE <<PageRecord(url, status, doc)>> \o SkippedRecords(doc.links, domain)

\* PageFollowed without the early return of the non-HTML branch
PageFollowedAnyType(content_type, doc, domain) == FollowedLinks(doc.links, domain)

\* the URLs parse_page follows for a response, in order
PageFollowed(content_type, doc, domain) ==
    IF ~IsHtml(content_type) THEN <<>>
    ELSE FollowedLinks(doc.links, domain)

\* the requests parse_page yields for a response
PageRequests(content_type, doc, domain) ==
    FollowRequests(PageFollowed(content_type, doc, domain))

\* the bodies of the non-HTML responses: without anchors, or with two
NonHtmlLinkLists == {<<>>, <<"https://example.com/a", "https://other.com/">>}

\* the documents per content type: of a non-HTML body only the anchors vary
DocsFor(content_type) ==
    IF IsHtml(content_type) THEN Docs
    ELSE {d \in Docs : d.title = "" /\ d.links \in NonHtmlLinkLists}

ParsePage(req) ==
    /\ pc = "running"
    /\ req \in inflight
    /\ req.callback = "parse_page"
    /\ req.url \in DownloadableUrls
    /\ inflight' = inflight \ {req}
    /\ \E status \in Statuses, content_type \in ContentTypes :
         \E doc \in DocsFor(content_type) :
           LET followed == PageFollowed(content_type, doc, allowed_domain)
               \* the links the loop of parse_page goes through
               looped == IF IsHtml(content_type) THEN doc.links ELSE <<>>
           IN  /\ Emit(PageItems(req.url, status, content_type, doc, allowed_domain))
               /\ Schedule(PageRequests(content_type, doc, allowed_domain))
               \* the fetch itself, and every link that is not followed
               /\ outcomes' = outcomes + 1 + (Len(looped) - Len(followed))
               /\ last' = RanPage(req.url, content_type, doc.links, followed)
    /\ UNCHANGED <<pc, start_url, allowed_domain, visited_titles, visited_h1s, items_scraped,
                   fetched>>
    /\ UNCHANGED pollvars

\* Counted, counting every failure twice
CountedTwice(n) == n + 2

\* self.items_scraped += 1
Counted(n) == n + 1

\* HandleError, stopping the crawl: what the scheduler holds is dropped
HandleErrorAborts(req) ==
    /\ pc = "running"
    /\ req \in inflight
    /\ inflight' = inflight \ {req}
    /\ pending' = {}
    /\ items_scraped' = Counted(items_scraped)
    /\ \E err \in Errors :
         /\ Emit(<<FailedRecord(req.url, err)>>)
         /\ last' = RanError(req.url, err)
    /\ outcomes' = outcomes + 1
    /\ UNCHANGED <<pc, start_url, allowed_domain, visited_titles, visited_h1s,
                   seen, fetched>>
    /\ UNCHANGED pollvars

\* handle_error: the errback of every request
HandleError(req) ==
    /\ pc = "running"
    /\ req \in inflight
    /\ inflight' = inflight \ {req}
    /\ items_scraped' = Counted(items_scraped)
    /\ \E err \in Errors :
         /\ Emit(<<FailedRecord(req.url, err)>>)
         /\ last' = RanError(req.url, err)
    /\ outcomes' = outcomes + 1
    /\ UNCHANGED <<pc, start_url, allowed_domain, visited_titles, visited_h1s,
                   pending, seen, fetched>>
    /\ UNCHANGED pollvars

\* CloseOverwrites without the test of the counter
CloseOverwritesWhenMissing(exists, scraped) == ~exists

\* close writes the sentinel row over out/results.csv
CloseOverwrites(exists, scraped) == ~exists \/ scraped = 0

\* SentinelWritten with the file opened in append mode
SentinelAppended(rows) == Append(rows, SentinelRow)

\* the rows of out/results.csv after close has written it: the file is
\* opened in "w" mode, which truncates it, and one row is written
SentinelWritten(rows) == <<SentinelRow>>

\* the body of close: what it does to out/results.csv
CloseFile ==
    IF CloseOverwrites(resultsExists, items_scraped)
    THEN /\ resultsExists' = TRUE
         /\ results' = SentinelWritten(results)
    ELSE UNCHANGED <<resultsExists, results>>

\* close: the spider is closed, because the engine is idle or because the
\* run is stopped (page-count limit, shutdown)
Close ==
    /\ pc = "running"
    /\ pc' = "closed"
    /\ CloseFile
    /\ last' = Ran("close", "", <<>>)
    /\ UNCHANGED <<start_url, allowed_domain, visited_titles, visited_h1s, items_scraped,
                   pending, inflight, seen, items, fetched, outcomes>>
    /\ UNCHANGED pollvars

Next ==
    \/ RunClicked
    \/ SpiderInit
    \/ StartRequests
    \/ \E req \in pending : Dispatch(req)
    \/ \E req \in inflight : ParseSitemap(req)
    \/ \E req \in inflight : ParsePage(req)
    \/ \E req \in inflight : HandleError(req)
    \/ Close

Spec == Init /\ [][Next]_vars

\* a fetch in flight completes: one of the callbacks of its request runs
Complete ==
    \E req \in inflight : ParseSitemap(req) \/ ParsePage(req) \/ HandleError(req)

\* CloseDue without the page-count limit
CloseDueWhenIdle == inflight = {} /\ pending = {}

\* the engine closes the spider by itself: nothing is in flight, and the
\* scheduler is empty or the page-count limit is reached
CloseDue == inflight = {} /\ (pending = {} \/ TotalFetched >= MaxFetches)

\* The crawl under the engine's scheduling: a request the scheduler holds is
\* dispatched when a download slot is free, a download ends (in a response
\* or, at the latest on DOWNLOAD_TIMEOUT, in a failure), and the spider is
\* closed when that is due.  A stop from outside may close it earlier.
Progress ==
    \/ \E req \in pending : Dispatch(req)
    \/ Complete
    \/ CloseDue /\ Close

FairSpec == Spec /\ WF_vars(Progress)

\* close called once more on a spider that is already closed: the same
\* body runs again, on the state the first call left
CloseAgain ==
    /\ pc = "closed"
    /\ CloseFile
    /\ last' = Ran("close_again", "", <<>>)
    /\ UNCHANGED <<pc, start_url, allowed_domain, visited_titles, visited_h1s,
                   items_scraped, pending, inflight, seen, items, fetched, outcomes>>
    /\ UNCHANGED pollvars

RecloseNext == Next \/ CloseAgain

\* the program with any number of further calls of close
RecloseSpec == Init /\ [][RecloseNext]_vars

----------------------------------------------------------------------------
(* The dashboard's monitor loop (streamlit_app.py, step 3).  The crawler   *)
(* runs as a separate process: what an iteration finds in out/errors.log   *)
(* and out/results.csv is an input of that iteration.                      *)

\* a results file holds at most this many data rows
MaxRows == 2

\* wait_seconds = 600
wait_seconds == 600

\* what an iteration may find
Findings ==
    {Found("error", 0), Found("missing", 0), Found("unreadable", 0)}
        \cup {Found("rows", n) : n \in 0..MaxRows}

\* pd.read_csv(results_path) returned a frame
ReadOk(f) == f.kind = "rows"

\* row_count after the try block
NewRowCount(rc, f) == IF ReadOk(f) /\ f.n > rc THEN f.n ELSE rc

\* NewTicks counting every iteration without growth, a failed read too
NewTicksAnyRead(ticks, rc, f) == IF ReadOk(f) /\ f.n > rc THEN 0 ELSE ticks + 1

\* stable_ticks after the try block: an exception of read_csv leaves it
NewTicks(ticks, rc, f) ==
    IF ~ReadOk(f) THEN ticks
    ELSE IF f.n > rc THEN 0 ELSE ticks + 1

\* InRange without the end of the range
InRangeUnbounded(n) == TRUE

\* range(wait_seconds) has a next i
InRange(n) == n < wait_seconds

\* the loop is set up after the crawler was launched
StartMonitor ==
    /\ pc = "launched"
    /\ monitor = "idle"
    /\ monitor' = "polling"
    /\ row_count' = 0
    /\ stable_ticks' = 0
    /\ UNCHANGED <<polled, poll, quiet, parsed>>
    /\ UNCHANGED crawlvars

\* one iteration of the loop: the error log first, then the results file,
\* then the test of stable_ticks (made only if the results file exists)
Poll ==
    /\ monitor = "polling"
    /\ InRange(polled)
    /\ polled' = polled + 1
    /\ \E f \in Findings :
         /\ poll' = f
         /\ IF f.kind = "error"
            THEN /\ monitor' = "error"
                 /\ UNCHANGED <<row_count, stable_ticks, quiet, parsed>>
            ELSE /\ row_count' = NewRowCount(row_count, f)
                 /\ stable_ticks' = NewTicks(stable_ticks, row_count, f)
                 /\ monitor' = IF f.kind # "missing" /\ stable_ticks' >= 3
                                THEN "complete" ELSE "polling"
                 /\ quiet' = IF f.kind # "rows" THEN quiet
                              ELSE IF f.n > row_count THEN 0 ELSE quiet + 1
                 /\ parsed' = (parsed \/ f.kind = "rows")
    /\ UNCHANGED crawlvars

\* the else clause of the for loop: the range is exhausted without a break
TimedOut ==
    /\ monitor = "polling"
    /\ ~InRange(polled)
    /\ monitor' = "timed out"
    /\ UNCHANGED <<polled, row_count, stable_ticks, poll, quiet, parsed>>
    /\ UNCHANGED crawlvars

PollNext ==
    \/ RunClicked
    \/ StartMonitor
    \/ Poll
    \/ TimedOut

\* the dashboard from the Run button to the end of the monitor loop
PollSpec == Init /\ [][PollNext]_vars

\* an iteration ends: every read is of a file, and time.sleep(1) returns
FairPollSpec == PollSpec /\ WF_vars(Poll \/ TimedOut)

----------------------------------------------------------------------------
(* Properties of the result sink *)

\* the records the last step yielded
NewItems == SubSeq(items', Len(items) + 1, Len(items'))

\* C1: once close has run on a run that emitted N >= 1 records, the
\* results file holds exactly those N rows and not the sentinel row.
C1_RecordsSurviveClose ==
    (pc = "closed" /\ Len(items) >= 1) => (resultsExists /\ results = items)

\* C2: once close has run on a run that emitted no record, the results
\* file exists and holds exactly one row, the sentinel.
C2_EmptyRunHasSentinel ==
    (pc = "closed" /\ Len(items) = 0) => (resultsExists /\ results = <<SentinelRow>>)

\* a run closed with no record although a fetch had completed
C2_Witness ==
    /\ pc = "closed"
    /\ items = <<>>
    /\ outcomes > 0
    /\ results = <<SentinelRow>>

----------------------------------------------------------------------------
(* Properties of the frontier *)

\* the link is http(s) and its registered domain is the seed's
InScope(url) ==
    /\ Scheme(url) \in {"http", "https"}
    /\ RegisteredDomain(url) = RegisteredDomain(start_url)

\* C3: of the links of an HTML page, exactly those in scope are enqueued
\* (unless already seen); every other one yields a skipped record and no
\* request.
C3_DomainScope ==
    [][(last'.op = "parse_page" /\ IsHtml(last'.content_type)) =>
         \A i \in 1..Len(last'.links) :
            LET link == last'.links[i]
                skipped == \E k \in 1..Len(NewItems) : NewItems[k] = SkippedRecord(link)
            IN  IF InScope(link)
                THEN /\ link \in seen'
                     /\ link \in seen \/ \E r \in pending' : r.url = link
                     /\ ~skipped
                ELSE /\ \A r \in pending' \ pending : r.url # link
                     /\ skipped]_vars

\* C4: no URL is dispatched for fetch more than once in a run.
C4_FetchedAtMostOnce == \A u \in DOMAIN fetched : fetched[u] <= 1

----------------------------------------------------------------------------
(* Properties of the records *)

\* the columns of the output artifact
RecordFields ==
    {"url", "status", "title", "h1", "canonical", "robots_meta", "hreflang_count",
     "duplicate_title", "duplicate_h1", "note"}

\* the record of an HTML page: a fetched page whose title was extracted
IsPageRecord(r) ==
    /\ r.status \in Statuses
    /\ r.title # None

\* C5: a page's record has duplicate_title (duplicate_h1) true exactly when
\* an earlier page of the run had the same title (heading), and the titles
\* and headings of all processed pages are in the seen-sets.
C5_DuplicateFlags ==
    \A i \in 1..Len(items) :
        IsPageRecord(items[i]) =>
            /\ items[i].duplicate_title =
                 (\E j \in 1..(i - 1) :
                     IsPageRecord(items[j]) /\ items[j].title = items[i].title)
            /\ items[i].duplicate_h1 =
                 (\E j \in 1..(i - 1) :
                     IsPageRecord(items[j]) /\ items[j].h1 = items[i].h1)
            /\ items[i].title \in visited_titles
            /\ items[i].h1 \in visited_h1s

\* C6: when the crawl has finished, items_scraped is the number of rows
\* emitted during the run.
C6_CounterIsRowCount == (pc = "closed") => (items_scraped = Len(items))

\* C7: every terminal outcome (a completed fetch, a skipped link) has
\* emitted exactly one record: the rows emitted are as many as the outcomes.
C7_OneRecordPerOutcome == Len(items) = outcomes

\* C8: a start URL that is not an absolute http(s) URL is rejected before
\* any fetch, and the results file then exists and holds the sentinel row.
C8_InvalidStartRejected ==
    (~ValidInput(start_url) /\ pc \in {"rejected", "crashed", "closed"}) =>
        /\ TotalFetched = 0
        /\ resultsExists
        /\ results = <<SentinelRow>>

\* C9: every emitted record has exactly the ten fields of the output
\* artifact.
C9_TenFields == \A i \in 1..Len(items) : DOMAIN items[i] = RecordFields

\* C10: a failed fetch yields exactly one record, with status "failed" and
\* the URL of the failed request, and leaves the run going: the crawl is not
\* closed, the scheduler keeps what it held and the other fetches in flight
\* stay in flight.
C10_FailureDoesNotAbort ==
    [][last'.op = "handle_error" =>
         /\ pc' = "running"
         /\ Len(items') = Len(items) + 1
         /\ items'[Len(items')].status = "failed"
         /\ items'[Len(items')].url = last'.url
         /\ pending' = pending
         /\ \E r \in inflight : r.url = last'.url /\ inflight' = inflight \ {r}]_vars

\* a fetch has just failed while another request is pending, a third is in
\* flight, and the failure's record is the newest row
C10_Witness ==
    /\ last.op = "handle_error"
    /\ pc = "running"
    /\ pending # {}
    /\ inflight # {}
    /\ Len(items) >= 1
    /\ items[Len(items)].status = "failed"
    /\ items[Len(items)].url = last.url

----------------------------------------------------------------------------
(* Properties of the outcome classifier and of the progress counter *)

\* failure.value of a request that robots.txt disallows
RobotsError == "Forbidden by robots.txt"

\* C11: a fetch refused because robots.txt disallows it yields a record
\* with status "skipped" and the note "blocked by robots.txt", not a record
\* with status "failed".
C11_RobotsIsSkipped ==
    [][(last'.op = "handle_error" /\ last'.err = RobotsError) =>
         LET r == items'[Len(items')]
         IN  /\ Len(items') = Len(items) + 1
             /\ r.url = last'.url
             /\ r.status = "skipped"
             /\ "note" \in DOMAIN r
             /\ r.note = "blocked by robots.txt"]_vars

\* C12: a response that is not text/html yields exactly one record, with
\* title and h1 null, the response's status and a note naming the content
\* type, and no link of its body is extracted: no request is scheduled and
\* no skipped-link record is yielded.
C12_NonHtmlIsOneRecord ==
    [][(last'.op = "parse_page" /\ ~IsHtml(last'.content_type)) =>
         /\ Len(NewItems) = 1
         /\ NewItems[1].url = last'.url
         /\ NewItems[1].status \in Statuses
         /\ NewItems[1].title = None
         /\ NewItems[1].h1 = None
         /\ Contains(NewItems[1].note, last'.content_type)
         /\ pending' = pending
         /\ seen' = seen]_vars

\* a non-HTML response whose body carried anchors has just been handled
C12_Witness ==
    /\ last.op = "parse_page"
    /\ ~IsHtml(last.content_type)
    /\ last.links # <<>>
    /\ Len(items) >= 1
    /\ items[Len(items)].title = None
    /\ items[Len(items)].url = last.url

\* C13: no step of a run lowers items_scraped, and no step raises it by
\* more than one.
C13_CounterMonotone ==
    [][/\ items_scraped' >= items_scraped
       /\ items_scraped' <= items_scraped + 1]_vars

\* a run that counted two failures and was closed
C13_Witness ==
    /\ pc = "closed"
    /\ items_scraped >= 2
    /\ last.op = "close"

----------------------------------------------------------------------------
(* Properties of the seeds and of the sitemap *)

\* C14: a sitemap <loc> out of scope (another registered domain, or a
\* scheme other than http/https) is never handed to the scheduler for fetch.
C14_SitemapScope ==
    [][last'.op = "parse_sitemap" =>
         \A i \in 1..Len(last'.links) :
            ~InScope(last'.links[i]) =>
                \A r \in pending' \ pending : r.url # last'.links[i]]_vars

\* C15: a crawl that has started is eventually closed: its fetches
\* complete, the engine runs out of work (or reaches the page-count limit)
\* and close() runs.
C15_EventuallyClosed == (pc = "running") ~> (pc = "closed")

\* a crawl closed by the engine with nothing pending and nothing in flight,
\* after both seeds and a discovered page were fetched
C15_Witness ==
    /\ pc = "closed"
    /\ last.op = "close"
    /\ pending = {}
    /\ inflight = {}
    /\ TotalFetched >= 3

\* C16: close is idempotent: a second call, in any state reached after the
\* first, leaves out/results.csv and items_scraped as the first call left
\* them.
C16_CloseIdempotent ==
    [][last'.op = "close_again" =>
        /\ results' = results
        /\ resultsExists' = resultsExists
        /\ items_scraped' = items_scraped]_vars

\* close ran a second time after a first call that wrote the sentinel row
\* (the condition of close holds again in the second call)
C16_Witness ==
    /\ pc = "closed"
    /\ last.op = "close_again"
    /\ CloseOverwrites(resultsExists, items_scraped)
    /\ results = <<SentinelRow>>

\* urljoin(u, "/robots.txt"): the robots file of the origin of u
RobotsUrl(u) ==
    IF Netloc(u) = "" THEN "/robots.txt"
    ELSE Scheme(u) \o "://" \o Netloc(u) \o "/robots.txt"

\* C17: seeding dispatches exactly three initial targets, resolved against
\* the origin of the start URL: the start URL, /robots.txt and /sitemap.xml.
C17_ThreeSeeds ==
    last.op = "start_requests" =>
        {r.url : r \in pending} =
            {start_url, RobotsUrl(start_url), SitemapUrl(start_url)}

\* the number of entries of a sequence that equal x
Count(q, x) == Cardinality({i \in 1..Len(q) : q[i] = x})

\* C18: on an HTML page parse_page yields, for every <a href>, exactly one
\* of a follow request and a skipped record: a page with k links yields its
\* page record and k dispositions, and a URL that is not followed gets one
\* skipped record per occurrence, whatever earlier pages yielded for it.
C18_OneDispositionPerLink ==
    [][(last'.op = "parse_page" /\ IsHtml(last'.content_type)) =>
        LET links == last'.links
            followed == last'.followed
            skipped == SubSeq(NewItems, 2, Len(NewItems))
        IN  /\ Len(NewItems) >= 1
            /\ NewItems[1].url = last'.url
            /\ NewItems[1].status # "skipped"
            /\ Len(followed) + Len(skipped) = Len(links)
            /\ \A i \in 1..Len(skipped) : skipped[i].status = "skipped"
            /\ \A u \in Range(links) :
                 /\ Count(links, u) = Count(followed, u) + Count(skipped, SkippedRecord(u))
                 /\ Count(followed, u) = 0 \/ Count(skipped, SkippedRecord(u)) = 0
            /\ \A u \in Range(followed) : Req(u, "parse_page", FALSE) \in pending' \/ u \in seen
       ]_vars

\* two HTML pages were parsed that both link the same foreign URL, the last
\* one with a link it follows next to it: two skipped records for that URL
C18_Witness ==
    /\ last.op = "parse_page"
    /\ IsHtml(last.content_type)
    /\ Len(last.links) = 2
    /\ Len(last.followed) = 1
    /\ Count(items, SkippedRecord("https://other.com/")) >= 2

\* C19: the monitor loop leaves as complete only after at least 3 reads
\* that parsed and showed no larger row count since the last growth;
\* row_count never decreases, stable_ticks is 0 after every growth, and an
\* iteration whose read fails changes neither counter.
C19_StableBeforeComplete ==
    [][(monitor = "polling" /\ polled' = polled + 1) =>
        /\ row_count' >= row_count
        /\ (poll'.kind = "rows" /\ poll'.n > row_count) =>
               (row_count' = poll'.n /\ stable_ticks' = 0)
        /\ poll'.kind \in {"missing", "unreadable"} =>
               (row_count' = row_count /\ stable_ticks' = stable_ticks)
        /\ monitor' = "complete" => (quiet' >= 3 /\ poll'.kind = "rows")
       ]_vars

\* the loop left as complete after the row count had grown to its largest
\* value and three further reads showed no growth, in more iterations than
\* one growth and three quiet reads take
C19_Witness ==
    /\ monitor = "complete"
    /\ row_count = MaxRows
    /\ polled > 4
    /\ quiet = 3

\* the ways the monitor loop ends
Ended == {"error", "complete", "timed out"}

\* how the loop stands and how it ended
LoopOutcome ==
    /\ polled <= wait_seconds
    /\ monitor = "error" => poll.kind = "error"
    /\ monitor = "complete" => (stable_ticks >= 3 /\ poll.kind # "error" /\ parsed)
    /\ monitor = "timed out" =>
          (polled = wait_seconds /\ stable_ticks < 3 /\ poll.kind # "error")
    /\ monitor = "polling" => (stable_ticks < 3 /\ poll.kind # "error")

\* C20: the monitor loop always ends, after at most 600 iterations, in
\* exactly one of three outcomes: error (the error log was non-empty at an
\* iteration), complete (stable_ticks reached 3) or timed out (600 iterations
\* passed without either); without a read that parses, and without an error,
\* it ends timed out.
C20_LoopEnds ==
    /\ []LoopOutcome
    /\ [][(monitor \in Ended) => (monitor' = monitor)]_vars
    /\ (monitor = "polling") ~> (monitor \in Ended)

\* the loop timed out after 600 iterations none of which read a results
\* file that parses
C20_Witness ==
    /\ monitor = "timed out"
    /\ polled = 600
    /\ ~parsed
    /\ row_count = 0
    /\ stable_ticks = 0

====
